---- MODULE Spec2Model ----
(***************************************************************************)
(* A model of the WhatsApp inbox of src/app.py: the persisted Conversation *)
(* and Message tables, the two operator operations (create conversation,   *)
(* post message) and the gateway webhook with its three event handlers.    *)
(*                                                                         *)
(* In Spec every request is one atomic step (requests are handled one at   *)
(* a time); SpecConcurrent takes the requests that read and then write     *)
(* apart into these two steps, for the requests of several workers to      *)
(* interleave; SpecNormalize applies normalize_chat_id to bounded strings.  *)
(* The tables hold the committed rows only.  Rows are never deleted, so a  *)
(* row's surrogate id is its position in its table.  Each handler is an    *)
(* operator from the tables and the request to the tables it commits and   *)
(* the response it gives; the actions apply the handlers.  Strings the     *)
(* code takes apart (contact numbers, names) are sequences of one-         *)
(* character strings; times are whole seconds on the UTC time line.        *)
(***************************************************************************)
EXTENDS Integers, Sequences, FiniteSets, TLC

\* ------------------------------------------------------------------ bounds

MaxConversations == 2
MaxMessages == 2
MaxClock == 2
\* The length of the strings normalize_chat_id is applied to.
MaxLen == 4
\* The requests in progress at a time.
MaxWorkers == 2

\* ------------------------------------------------------------------ values

\* Python's None for an optional text value (idMessage, external_id).
None == "None"
\* An absent or empty character string: contact_name NULL, a missing chatId,
\* an empty form field.  The webhook inputs hold no empty chatId string.
Empty == << >>
\* An absent or empty message text; the handlers test it by truthiness only.
NoText == ""

Suffix == <<"@", "c", ".", "u", "s">>
Chat1 == <<"1">> \o Suffix
Chat2 == <<"2">> \o Suffix
Ana == <<"A", "n", "a">>

Digits == {"0", "1", "2", "3", "4", "5", "6", "7", "8", "9"}
Whitespace == {" ", "\t", "\n"}

\* What the operator types in the contact_number field of the form.
RawNumbers == {Empty, <<" ">>, <<"a">>, <<" ", "+", "1">>, Chat2}
\* What the operator types in the contact_name field.
FormNames == {Ana}
\* chatId of a webhook event (Empty: the key is absent).
ChatIds == {Empty, Chat1, Chat2}
SenderNames == {Empty, Ana}
Texts == {NoText, "hola"}
\* idMessage of a webhook event or of the gateway's sendMessage response.
MessageIds == {None, "A", "B"}
\* timestamp of a webhook event; 0 stands for an absent one (both falsy).
Timestamps == 0..MaxClock

\* How a call of the gateway's sendMessage endpoint ends: a 2xx response, a
\* non-2xx response, any other exception once the POST is issued (network
\* error, timeout, undecodable body), or no credentials in the environment.
SendOutcomes == {"ok", "http_error", "error", "no_credentials"}

\* The characters of the strings normalize_chat_id is applied to: digits,
\* '@', a letter, '+' and the space.
Alphabet == {"1", "2", "@", "a", "+", " "}

RECURSIVE Strings(_)
Strings(n) ==
    IF n = 0 THEN {<< >>}
    ELSE Strings(n - 1) \cup
         {<<c>> \o t : c \in Alphabet,
                       t \in {u \in Strings(n - 1) : Len(u) = n - 1}}

Workers == 1..MaxWorkers

VARIABLES
    conversations,  \* the conversations table, in id order
    messages,       \* the messages table, in id order
    clock,          \* what datetime.utcnow() reads
    requests,       \* what each worker's request in progress holds
    typed_number,   \* the string normalize_chat_id is applied to
    normalized      \* what it gave, and what it gave for that in turn

vars == <<conversations, messages, clock, requests, typed_number, normalized>>

\* ------------------------------------------------------------- pure helpers

RECURSIVE lstrip(_)
lstrip(s) ==
    IF s # << >> /\ Head(s) \in Whitespace THEN lstrip(Tail(s)) ELSE s

RECURSIVE rstrip(_)
rstrip(s) ==
    IF s # << >> /\ s[Len(s)] \in Whitespace
    THEN rstrip(SubSeq(s, 1, Len(s) - 1))
    ELSE s

strip(s) == rstrip(lstrip(s))

RECURSIVE filter_isdigit(_)
filter_isdigit(s) ==
    IF s = << >> THEN << >>
    ELSE IF Head(s) \in Digits
         THEN <<Head(s)>> \o filter_isdigit(Tail(s))
         ELSE filter_isdigit(Tail(s))

Contains(s, c) == \E i \in 1..Len(s) : s[i] = c

\* Mutant of normalize_chat_id: the suffix is joined to what was typed,
\* without a look for an '@' in it.
normalize_chat_id_suffixed(raw_number) ==
    IF raw_number = << >> THEN [ok |-> FALSE, value |-> << >>]
    ELSE LET stripped == strip(raw_number)
             digits == filter_isdigit(stripped)
         IN  IF digits = << >> THEN [ok |-> FALSE, value |-> << >>]
             ELSE [ok |-> TRUE, value |-> stripped \o Suffix]

\* normalize_chat_id: [ok |-> FALSE] stands for the ValueError.
normalize_chat_id(raw_number) ==
    IF raw_number = << >> THEN [ok |-> FALSE, value |-> << >>]
    ELSE LET stripped == strip(raw_number)
             digits == filter_isdigit(stripped)
         IN  IF Contains(stripped, "@") THEN [ok |-> TRUE, value |-> stripped]
             ELSE IF digits = << >> THEN [ok |-> FALSE, value |-> << >>]
             ELSE [ok |-> TRUE, value |-> digits \o Suffix]

\* datetime.utcfromtimestamp: Unix seconds are seconds on the UTC time line
\* datetime.utcnow() reads, so the two are comparable as they stand.
utcfromtimestamp(timestamp) == timestamp

\* `utcfromtimestamp(timestamp) if timestamp else utcnow()`
EventTime(timestamp, now) ==
    IF timestamp # 0 THEN utcfromtimestamp(timestamp) ELSE now

\* `a or b` on character strings.
OrElse(a, b) == IF a # << >> THEN a ELSE b

\* Mutant of Message: the row is stored without its external_id.
Message_without_id(conversation_id, sender_type, message_text, sent_at, external_id) ==
    [conversation_id |-> conversation_id, sender_type |-> sender_type,
     message_text |-> message_text, sent_at |-> sent_at, external_id |-> None]

\* A Conversation row and a Message row.
Conversation(contact_number, contact_name, created_at, updated_at) ==
    [contact_number |-> contact_number, contact_name |-> contact_name,
     created_at |-> created_at, updated_at |-> updated_at]

Message(conversation_id, sender_type, message_text, sent_at, external_id) ==
    [conversation_id |-> conversation_id, sender_type |-> sender_type,
     message_text |-> message_text, sent_at |-> sent_at,
     external_id |-> external_id]

\* Mutants of FindConversation: a lookup that finds nothing, and one that
\* filters on contact_name.
FindConversation_none(convs, chat_id) == 0

FindConversation_by_name(convs, chat_id) ==
    LET hits == {i \in 1..Len(convs) : convs[i].contact_name = chat_id}
    IN  IF hits = {} THEN 0 ELSE CHOOSE i \in hits : \A j \in hits : i <= j

\* Conversation.query.filter_by(contact_number=chat_id).first(): the id of the
\* first row, 0 when there is none.
FindConversation(convs, chat_id) ==
    LET hits == {i \in 1..Len(convs) : convs[i].contact_number = chat_id}
    IN  IF hits = {} THEN 0 ELSE CHOOSE i \in hits : \A j \in hits : i <= j

\* Mutant of FindMessageInConversation: .first() without the order_by, the
\* row with the lowest id.
FindMessageInConversation_first(msgs, external_id, conversation_id) ==
    LET hits == {i \in 1..Len(msgs) :
                    /\ msgs[i].external_id = external_id
                    /\ msgs[i].conversation_id = conversation_id}
    IN  IF hits = {} THEN 0 ELSE CHOOSE i \in hits : \A j \in hits : i <= j

\* Mutant of FindMessageInConversation: the filter on conversation_id is
\* left out.
FindMessageInConversation_any_conversation(msgs, external_id, conversation_id) ==
    LET hits == {i \in 1..Len(msgs) : msgs[i].external_id = external_id}
    IN  IF hits = {} THEN 0 ELSE CHOOSE i \in hits : \A j \in hits : i >= j

\* Mutant of FindMessageInConversation: the lookup finds nothing.
FindMessageInConversation_none(msgs, external_id, conversation_id) == 0

\* Message.query.filter_by(external_id=.., conversation_id=..)
\*     .order_by(Message.id.desc()).first(): the id of the row, 0 for none.
\* filter_by(external_id=None) is `external_id IS NULL`: it matches the rows
\* stored without an id.
FindMessageInConversation(msgs, external_id, conversation_id) ==
    LET hits == {i \in 1..Len(msgs) :
                    /\ msgs[i].external_id = external_id
                    /\ msgs[i].conversation_id = conversation_id}
    IN  IF hits = {} THEN 0 ELSE CHOOSE i \in hits : \A j \in hits : i >= j

\* Message.query.filter_by(external_id=..).first(): the id of the row, 0 for
\* none.
FindMessage(msgs, external_id) ==
    LET hits == {i \in 1..Len(msgs) : msgs[i].external_id = external_id}
    IN  IF hits = {} THEN 0 ELSE CHOOSE i \in hits : \A j \in hits : i <= j

\* Mutant of Touch: the bump is forgotten.
Touch_forgotten(convs, conversation_id, now) == convs

\* `conversation.updated_at = datetime.utcnow()`
Touch(convs, conversation_id, now) ==
    [convs EXCEPT ![conversation_id].updated_at = now]

\* Mutant of send_whatsapp_message: a failed call goes unnoticed.
send_whatsapp_message_unchecked(chat_id, outcome) ==
    [result |-> "ok", posted |-> TRUE]

\* send_whatsapp_message: how the call ends for the caller ("ok", the
\* requests HTTPError, or another exception) and whether the POST went out.
send_whatsapp_message(chat_id, outcome) ==
    IF outcome = "no_credentials"
    THEN [result |-> "Exception", posted |-> FALSE]
    ELSE IF ~normalize_chat_id(chat_id).ok
    THEN [result |-> "Exception", posted |-> FALSE]
    ELSE IF outcome = "http_error"
    THEN [result |-> "HTTPError", posted |-> TRUE]
    ELSE IF outcome = "error"
    THEN [result |-> "Exception", posted |-> TRUE]
    ELSE [result |-> "ok", posted |-> TRUE]

\* What a request leaves: the committed tables and the response (its HTTP
\* status, the "status" of its JSON body or the page it renders), with the
\* conversation it redirects to or stored into (0 for none) and whether a
\* POST went out to the gateway.
Result(convs, msgs, code, status, conv, posted) ==
    [conversations |-> convs, messages |-> msgs, code |-> code,
     status |-> status, conv |-> conv, posted |-> posted]

\* ---------------------------------------------------------------- operator

\* Mutant of failed_initial_send: no rollback, the request's teardown commits
\* the flushed conversation.
failed_initial_send_kept(convs, created, msgs, posted) ==
    Result(created, msgs, 200, "form", 0, posted)

\* The two except branches of new_conversation: db.session.rollback() drops
\* the flushed conversation (`created` is the table with it), the form is
\* rendered again.
failed_initial_send(convs, created, msgs, posted) ==
    Result(convs, msgs, 200, "form", 0, posted)

\* POST /conversation/new.  `form` holds the fields contact_number,
\* contact_name and initial_message; `send` how the gateway call ends and the
\* idMessage of its response (None when the body holds none).
new_conversation(convs, msgs, form, send, now) ==
    LET raw_number == strip(form.contact_number)
        contact_name == strip(form.contact_name)
        initial_message == form.initial_message
        norm == normalize_chat_id(raw_number)
        chat_id == norm.value
        existing == FindConversation(convs, chat_id)
        sent == send_whatsapp_message(chat_id, send.outcome)
        external_id == send.idMessage
        created == Append(convs, Conversation(chat_id, contact_name, now, now))
        new_id == Len(convs) + 1
    IN  IF raw_number = << >> \/ ~norm.ok
        THEN Result(convs, msgs, 200, "form", 0, FALSE)
        ELSE IF existing # 0
        THEN Result(convs, msgs, 302, "redirect", existing, FALSE)
        ELSE IF initial_message = NoText
        THEN Result(created, msgs, 302, "redirect", new_id, FALSE)
        ELSE IF sent.result # "ok"
        THEN failed_initial_send(convs, created, msgs, sent.posted)
        ELSE Result(created,
                    Append(msgs, Message(new_id, "agent", initial_message, now,
                                         external_id)),
                    302, "redirect", new_id, TRUE)

\* POST /conversation/<conversation_id>.  `form` holds the field message.
conversation_detail(convs, msgs, conversation_id, form, send, now) ==
    LET message_text == form.message
        conversation == convs[conversation_id]
        sent == send_whatsapp_message(conversation.contact_number,
                                      send.outcome)
        external_id == send.idMessage
    IN  IF conversation_id \notin 1..Len(convs)
        THEN Result(convs, msgs, 404, "error", 0, FALSE)
        ELSE IF message_text = NoText
        THEN Result(convs, msgs, 400, "error", 0, FALSE)
        ELSE IF sent.result = "HTTPError"
        THEN \* abort(exc.response.status_code): the upstream status
             Result(convs, msgs, 503, "error", 0, sent.posted)
        ELSE IF sent.result = "Exception"
        THEN Result(convs, msgs, 500, "error", 0, sent.posted)
        ELSE Result(Touch(convs, conversation_id, now),
                    Append(msgs, Message(conversation_id, "agent",
                                         message_text, now, external_id)),
                    302, "redirect", conversation_id, TRUE)

\* Mutant of OrderBy: no ORDER BY, the rows come in the order of their ids.
RECURSIVE OrderBy_rowid(_, _)
OrderBy_rowid(ids, key) ==
    IF ids = {} THEN {<< >>}
    ELSE LET i == CHOOSE i \in ids : \A j \in ids : i <= j
         IN  {<<i>> \o rest : rest \in OrderBy_rowid(ids \ {i}, key)}

\* query.order_by(<column>.asc()).all() over the rows `ids`, `key` giving
\* each row's value of the column: a row with the least value comes first,
\* then the others in the same way.  SQL leaves the order of rows with equal
\* values open, so the query has as many results as there are such orders.
RECURSIVE OrderBy(_, _)
OrderBy(ids, key) ==
    IF ids = {} THEN {<< >>}
    ELSE UNION {{<<i>> \o rest : rest \in OrderBy(ids \ {i}, key)} :
                   i \in {i \in ids : \A j \in ids : key[i] <= key[j]}}

\* GET /: Conversation.query.order_by(Conversation.updated_at.desc()).all(),
\* the ids of the conversations in the orders the page can list them.
dashboard(convs) ==
    OrderBy(1..Len(convs), [i \in 1..Len(convs) |-> 0 - convs[i].updated_at])

\* GET /conversation/<conversation_id>:
\* conversation.messages.order_by(Message.sent_at.asc()).all(), the ids of
\* the conversation's messages in the orders the page can list them.
conversation_messages(msgs, conversation_id) ==
    OrderBy({k \in 1..Len(msgs) : msgs[k].conversation_id = conversation_id},
            [k \in 1..Len(msgs) |-> msgs[k].sent_at])

\* ----------------------------------------------------------------- webhook

\* handle_incoming_message.  `ev` holds senderData.chatId, senderData
\* .senderName, messageData.textMessageData.textMessage, idMessage, timestamp.
handle_incoming_message(convs, msgs, ev, now) ==
    LET message_text == ev.textMessage
        chat_id == ev.chatId
        contact_name == OrElse(ev.senderName, chat_id)
        external_id == ev.idMessage
        sent_at == EventTime(ev.timestamp, now)
        found == FindConversation(convs, chat_id)
        conv_id == IF found # 0 THEN found ELSE Len(convs) + 1
        resolved == IF found # 0 THEN convs
                    ELSE Append(convs, Conversation(chat_id, contact_name,
                                                    sent_at, sent_at))
    IN  IF message_text = NoText
        THEN Result(convs, msgs, 200, "ignored", 0, FALSE)
        ELSE IF found = 0 /\ chat_id = Empty
        THEN \* contact_number is NOT NULL: the flush raises IntegrityError,
             \* handle_errors answers 500 and nothing is committed
             Result(convs, msgs, 500, "error", 0, FALSE)
        ELSE Result(Touch(resolved, conv_id, now),
                    Append(msgs, Message(conv_id, "customer", message_text,
                                         sent_at, external_id)),
                    200, "received", conv_id, FALSE)

\* Mutant of refresh_sent_at: the row is patched only when the event is
\* newer than what it holds.
refresh_sent_at_if_newer(msgs, existing_message, sent_at) ==
    IF sent_at > msgs[existing_message].sent_at
    THEN [msgs EXCEPT ![existing_message].sent_at = sent_at]
    ELSE msgs

\* Mutant of refresh_sent_at: the row found is rewritten from the event, as
\* an agent message.
refresh_sent_at_as_agent(msgs, existing_message, sent_at) ==
    [msgs EXCEPT ![existing_message].sent_at = sent_at,
                 ![existing_message].sender_type = "agent"]

\* handle_outgoing_message, the branch of a duplicate:
\* existing_message.sent_at = sent_at, whatever the row held.
refresh_sent_at(msgs, existing_message, sent_at) ==
    [msgs EXCEPT ![existing_message].sent_at = sent_at]

\* handle_outgoing_message.  `ev` holds messageData.chatId, messageData
\* .textMessageData.textMessage, messageData.extendedTextMessageData.text,
\* idMessage, timestamp.
handle_outgoing_message(convs, msgs, ev, now) ==
    LET chat_id == ev.chatId
        message_text == IF ev.textMessage # NoText THEN ev.textMessage
                        ELSE ev.text
        external_id == ev.idMessage
        sent_at == EventTime(ev.timestamp, now)
        found == FindConversation(convs, chat_id)
        conv_id == IF found # 0 THEN found ELSE Len(convs) + 1
        resolved == IF found # 0 THEN convs
                    ELSE Append(convs, Conversation(chat_id, chat_id, sent_at,
                                                    sent_at))
        existing_message == FindMessageInConversation(msgs, external_id,
                                                      conv_id)
    IN  IF chat_id = Empty \/ message_text = NoText
        THEN Result(convs, msgs, 200, "ignored", 0, FALSE)
        ELSE Result(Touch(resolved, conv_id, now),
                    IF existing_message # 0
                    THEN refresh_sent_at(msgs, existing_message, sent_at)
                    ELSE Append(msgs, Message(conv_id, "agent", message_text,
                                              sent_at, external_id)),
                    200, "stored", conv_id, FALSE)

\* Mutant of handle_outgoing_status: an unknown id gets a placeholder row.
handle_outgoing_status_placeholder(convs, msgs, ev) ==
    IF ev.idMessage = None
    THEN Result(convs, msgs, 200, "ignored", 0, FALSE)
    ELSE IF FindMessage(msgs, ev.idMessage) = 0
    THEN Result(convs,
                Append(msgs, Message(1, "agent", "", 0, ev.idMessage)),
                200, "ignored", 0, FALSE)
    ELSE Result(convs, msgs, 200, "acknowledged",
                msgs[FindMessage(msgs, ev.idMessage)].conversation_id, FALSE)

\* handle_outgoing_status.  `ev` holds idMessage (and the status it echoes).
handle_outgoing_status(convs, msgs, ev) ==
    LET external_id == ev.idMessage
        message == FindMessage(msgs, external_id)
    IN  IF external_id = None
        THEN Result(convs, msgs, 200, "ignored", 0, FALSE)
        ELSE IF message = 0
        THEN Result(convs, msgs, 200, "ignored", 0, FALSE)
        ELSE Result(convs, msgs, 200, "acknowledged",
                    msgs[message].conversation_id, FALSE)

\* Mutant of green_webhook: an event of another type is handled as an
\* incoming message.
green_webhook_fallthrough(convs, msgs, ev, now) ==
    IF ev.typeWebhook = "outgoingMessageReceived"
    THEN handle_outgoing_message(convs, msgs, ev, now)
    ELSE IF ev.typeWebhook = "outgoingMessageStatus"
    THEN handle_outgoing_status(convs, msgs, ev)
    ELSE handle_incoming_message(convs, msgs, ev, now)

\* green_webhook: the dispatch on typeWebhook.
green_webhook(convs, msgs, ev, now) ==
    IF ev.typeWebhook = "incomingMessageReceived"
    THEN handle_incoming_message(convs, msgs, ev, now)
    ELSE IF ev.typeWebhook = "outgoingMessageReceived"
    THEN handle_outgoing_message(convs, msgs, ev, now)
    ELSE IF ev.typeWebhook = "outgoingMessageStatus"
    THEN handle_outgoing_status(convs, msgs, ev)
    ELSE Result(convs, msgs, 200, "ignored", 0, FALSE)

\* ------------------------------------------------------------------ inputs

Forms ==
    [contact_number : RawNumbers, contact_name : FormNames,
     initial_message : Texts]

MessageForms == [message : Texts]

\* A failed call returns no id.
Sends ==
    {s \in [outcome : SendOutcomes, idMessage : MessageIds] :
        s.outcome # "ok" => s.idMessage = None}

\* The webhook payloads: typeWebhook (None when absent), the chat id and the
\* sender name, the text in the plain shape (textMessage) and in the extended
\* one (text), idMessage and timestamp.
Events(types) ==
    [typeWebhook : types, chatId : ChatIds, senderName : SenderNames,
     textMessage : Texts, text : Texts, idMessage : MessageIds,
     timestamp : Timestamps]

AllIncoming == Events({"incomingMessageReceived"})
AllOutgoing == Events({"outgoingMessageReceived"})
AllStatus == Events({"outgoingMessageStatus"})
AllOther == Events({None, "stateInstanceChanged"})

\* The events delivered in a run.  A handler never reads some fields, and
\* discards an event whatever its other fields hold: one event stands for
\* those that differ only there.
Bare(ev) ==
    ev.senderName = Empty /\ ev.idMessage = None /\ ev.timestamp = 0

IncomingEvents ==
    {ev \in AllIncoming :
        /\ ev.text = NoText
        /\ ev.textMessage = NoText => Bare(ev)}

OutgoingEvents ==
    {ev \in AllOutgoing :
        /\ ev.senderName = Empty
        /\ ev.textMessage # NoText => ev.text = NoText
        /\ (ev.chatId = Empty \/ (ev.textMessage = NoText /\ ev.text = NoText))
               => Bare(ev)}

StatusEvents ==
    {ev \in AllStatus :
        /\ ev.chatId = Empty /\ ev.senderName = Empty
        /\ ev.textMessage = NoText /\ ev.text = NoText /\ ev.timestamp = 0}

OtherEvents ==
    {ev \in AllOther : Bare(ev) /\ ev.text = NoText /\ ev.chatId # Chat2}

\* The event carries a chat id and a text, in the plain or the extended shape.
Stored(ev) ==
    ev.chatId # Empty /\ (ev.textMessage # NoText \/ ev.text # NoText)

\* ----------------------------------------------------------------- actions

\* No request in progress.
Idle ==
    [pc |-> "idle", conversation |-> 0, chat_id |-> Empty,
     message_text |-> NoText, external_id |-> None, sent_at |-> 0,
     existing_message |-> 0]

Init ==
    /\ conversations = << >>
    /\ messages = << >>
    /\ clock = 1
    /\ requests = [w \in Workers |-> Idle]
    /\ typed_number = Empty
    /\ normalized = << >>

\* The bounds of a run: a request that would outgrow them is left out.
WithinBounds(r) ==
    /\ Len(r.conversations) <= MaxConversations
    /\ Len(r.messages) <= MaxMessages

NewConversation ==
    \E form \in Forms, send \in Sends :
        LET r == new_conversation(conversations, messages, form, send, clock)
        IN  \* without a message no call is made: one outcome stands for all
            /\ form.initial_message = NoText =>
                   send.outcome = "ok" /\ send.idMessage = None
            /\ WithinBounds(r)
            /\ conversations' = r.conversations
            /\ messages' = r.messages
            /\ UNCHANGED <<clock, requests, typed_number, normalized>>

PostMessage ==
    \E conversation_id \in 1..MaxConversations, form \in MessageForms,
       send \in Sends :
        LET r == conversation_detail(conversations, messages, conversation_id,
                                     form, send, clock)
        IN  /\ form.message = NoText =>
                   send.outcome = "ok" /\ send.idMessage = None
            /\ WithinBounds(r)
            /\ conversations' = r.conversations
            /\ messages' = r.messages
            /\ UNCHANGED <<clock, requests, typed_number, normalized>>

IncomingMessageReceived ==
    \E ev \in IncomingEvents :
        LET r == green_webhook(conversations, messages, ev, clock)
        IN  /\ WithinBounds(r)
            /\ conversations' = r.conversations
            /\ messages' = r.messages
            /\ UNCHANGED <<clock, requests, typed_number, normalized>>

OutgoingMessageReceived ==
    \E ev \in OutgoingEvents :
        LET r == green_webhook(conversations, messages, ev, clock)
        IN  /\ WithinBounds(r)
            /\ conversations' = r.conversations
            /\ messages' = r.messages
            /\ UNCHANGED <<clock, requests, typed_number, normalized>>

OutgoingMessageStatus ==
    \E ev \in StatusEvents :
        LET r == green_webhook(conversations, messages, ev, clock)
        IN  /\ WithinBounds(r)
            /\ conversations' = r.conversations
            /\ messages' = r.messages
            /\ UNCHANGED <<clock, requests, typed_number, normalized>>

UnhandledEvent ==
    \E ev \in OtherEvents :
        LET r == green_webhook(conversations, messages, ev, clock)
        IN  /\ WithinBounds(r)
            /\ conversations' = r.conversations
            /\ messages' = r.messages
            /\ UNCHANGED <<clock, requests, typed_number, normalized>>

\* GET /: the page lists the conversations, nothing is written.
Dashboard ==
    \E page \in dashboard(conversations) :
        /\ Len(page) = Len(conversations)
        /\ UNCHANGED vars

\* GET /conversation/<conversation_id>: the page lists the messages.
ViewConversation ==
    \E conversation_id \in 1..Len(conversations) :
        \E page \in conversation_messages(messages, conversation_id) :
            /\ Len(page) <= Len(messages)
            /\ UNCHANGED vars

\* Time passes between requests.
Tick ==
    /\ clock < MaxClock
    /\ clock' = clock + 1
    /\ UNCHANGED <<conversations, messages, requests, typed_number, normalized>>

Next ==
    \/ NewConversation
    \/ PostMessage
    \/ IncomingMessageReceived
    \/ OutgoingMessageReceived
    \/ OutgoingMessageStatus
    \/ UnhandledEvent
    \/ Dashboard
    \/ ViewConversation
    \/ Tick

Spec == Init /\ [][Next]_vars

\* ------------------------------------------------------- requests in steps

\* handle_outgoing_message up to its second lookup: what the request holds
\* when it has read the tables and written nothing.  A conversation it has
\* to make has no rows, and gets its id when it is written.
read_outgoing(convs, msgs, ev, now) ==
    LET chat_id == ev.chatId
        found == FindConversation(convs, chat_id)
    IN  [pc |-> "outgoing_read", conversation |-> found, chat_id |-> chat_id,
         message_text |-> IF ev.textMessage # NoText THEN ev.textMessage
                          ELSE ev.text,
         external_id |-> ev.idMessage,
         sent_at |-> EventTime(ev.timestamp, now),
         existing_message |->
             IF found = 0 THEN 0
             ELSE FindMessageInConversation(msgs, ev.idMessage, found)]

\* Mutant of commit_outgoing: the lookups are made again on the tables the
\* commit writes to.
commit_outgoing_rechecked(convs, msgs, request, now) ==
    LET found == FindConversation(convs, request.chat_id)
        conv_id == IF found # 0 THEN found ELSE Len(convs) + 1
        resolved == IF found # 0 THEN convs
                    ELSE Append(convs, Conversation(request.chat_id,
                                                    request.chat_id,
                                                    request.sent_at,
                                                    request.sent_at))
        existing_message == FindMessageInConversation(msgs,
                                                      request.external_id,
                                                      conv_id)
    IN  Result(Touch(resolved, conv_id, now),
               IF existing_message # 0
               THEN refresh_sent_at(msgs, existing_message, request.sent_at)
               ELSE Append(msgs, Message(conv_id, "agent",
                                         request.message_text,
                                         request.sent_at,
                                         request.external_id)),
               200, "stored", conv_id, FALSE)

\* handle_outgoing_message from there on: the writes it makes on what it
\* read, whatever the tables hold by now, and the commit.
commit_outgoing(convs, msgs, request, now) ==
    LET conv_id == IF request.conversation # 0 THEN request.conversation
                   ELSE Len(convs) + 1
        resolved == IF request.conversation # 0 THEN convs
                    ELSE Append(convs, Conversation(request.chat_id,
                                                    request.chat_id,
                                                    request.sent_at,
                                                    request.sent_at))
    IN  Result(Touch(resolved, conv_id, now),
               IF request.existing_message # 0
               THEN refresh_sent_at(msgs, request.existing_message,
                                    request.sent_at)
               ELSE Append(msgs, Message(conv_id, "agent",
                                         request.message_text,
                                         request.sent_at,
                                         request.external_id)),
               200, "stored", conv_id, FALSE)

\* conversation_detail (POST) up to the gateway's response: the request
\* holds the conversation it loaded and the idMessage of the response.
send_message(convs, conversation_id, form, send) ==
    [pc |-> "post_sent", conversation |-> conversation_id,
     chat_id |-> convs[conversation_id].contact_number,
     message_text |-> form.message, external_id |-> send.idMessage,
     sent_at |-> 0, existing_message |-> 0]

\* conversation_detail (POST) from there on: the row, the bump, the commit.
commit_post(convs, msgs, request, now) ==
    Result(Touch(convs, request.conversation, now),
           Append(msgs, Message(request.conversation, "agent",
                                request.message_text, now,
                                request.external_id)),
           302, "redirect", request.conversation, TRUE)

\* The outgoing events delivered while requests interleave: those of one
\* chat with an idMessage, in the plain shape and without a timestamp, and
\* one that is discarded.
ConcurrentEvents ==
    {ev \in OutgoingEvents :
        /\ ev.text = NoText
        /\ Stored(ev) =>
               ev.chatId = Chat1 /\ ev.idMessage # None /\ ev.timestamp = 0}

\* The worker that takes the next request: the first that is free.
Free(w) ==
    /\ requests[w] = Idle
    /\ \A v \in Workers : v < w => requests[v] # Idle

\* The gateway gives each message it accepts an idMessage of its own: none
\* that a row or a request in progress carries already.
FreshId(external_id) ==
    external_id # None =>
        /\ \A k \in 1..Len(messages) : messages[k].external_id # external_id
        /\ \A w \in Workers : requests[w].external_id # external_id

\* A worker takes a POST /conversation/<conversation_id> up to the gateway's
\* response; a request that ends before (404, 400, a failed send) has
\* written nothing.
PostSend(w) ==
    \E conversation_id \in 1..MaxConversations, form \in MessageForms,
       send \in Sends :
        LET r == conversation_detail(conversations, messages, conversation_id,
                                     form, send, clock)
        IN  /\ Free(w)
            /\ form.message = NoText =>
                   send.outcome = "ok" /\ send.idMessage = None
            /\ IF r.code # 302 THEN UNCHANGED requests
               ELSE /\ FreshId(send.idMessage)
                    /\ requests' =
                           [requests EXCEPT
                                ![w] = send_message(conversations,
                                                    conversation_id, form,
                                                    send)]
            /\ UNCHANGED <<conversations, messages, clock, typed_number,
                           normalized>>

\* The worker stores the message it sent.
PostCommit(w) ==
    LET r == commit_post(conversations, messages, requests[w], clock)
    IN  /\ requests[w].pc = "post_sent"
        /\ WithinBounds(r)
        /\ conversations' = r.conversations
        /\ messages' = r.messages
        /\ requests' = [requests EXCEPT ![w] = Idle]
        /\ UNCHANGED <<clock, typed_number, normalized>>

\* A worker takes an outgoingMessageReceived event up to its lookups; an
\* event it discards has written nothing.
OutgoingRead(w) ==
    \E ev \in ConcurrentEvents :
        /\ Free(w)
        /\ IF ~Stored(ev) THEN UNCHANGED requests
           ELSE requests' =
                    [requests EXCEPT
                         ![w] = read_outgoing(conversations, messages, ev,
                                              clock)]
        /\ UNCHANGED <<conversations, messages, clock, typed_number,
                       normalized>>

\* The worker writes what the event made of its lookups.
OutgoingCommit(w) ==
    LET r == commit_outgoing(conversations, messages, requests[w], clock)
    IN  /\ requests[w].pc = "outgoing_read"
        /\ WithinBounds(r)
        /\ conversations' = r.conversations
        /\ messages' = r.messages
        /\ requests' = [requests EXCEPT ![w] = Idle]
        /\ UNCHANGED <<clock, typed_number, normalized>>

\* The form is sent without a first message: the conversation is made in
\* one step.
NewConversationOnly ==
    /\ NewConversation
    /\ messages' = messages

NextConcurrent ==
    \/ NewConversationOnly
    \/ \E w \in Workers : PostSend(w)
    \/ \E w \in Workers : PostCommit(w)
    \/ \E w \in Workers : OutgoingRead(w)
    \/ \E w \in Workers : OutgoingCommit(w)
    \/ Tick

SpecConcurrent == Init /\ [][NextConcurrent]_vars

\* ------------------------------------------------- normalize_chat_id alone

\* Any string of the alphabet up to the bound is typed; the tables are left
\* out of it.
InitNormalize ==
    /\ conversations = << >>
    /\ messages = << >>
    /\ clock = 1
    /\ requests = [w \in Workers |-> Idle]
    /\ typed_number \in Strings(MaxLen)
    /\ normalized = << >>

\* normalize_chat_id is applied to what was typed.
Normalize ==
    /\ normalized = << >>
    /\ normalized' = <<normalize_chat_id(typed_number)>>
    /\ UNCHANGED <<conversations, messages, clock, requests, typed_number>>

\* normalize_chat_id is applied to the chat id it returned.
NormalizeAgain ==
    /\ Len(normalized) = 1
    /\ normalized[1].ok
    /\ normalized' = Append(normalized, normalize_chat_id(normalized[1].value))
    /\ UNCHANGED <<conversations, messages, clock, requests, typed_number>>

NextNormalize ==
    \/ Normalize
    \/ NormalizeAgain

SpecNormalize == InitNormalize /\ [][NextNormalize]_vars

\* ------------------------------------------------------------------ claims

\* The ids of the rows of conversation `conv` that carry external_id `id`.
RowsWith(msgs, conv, id) ==
    {i \in 1..Len(msgs) :
        msgs[i].conversation_id = conv /\ msgs[i].external_id = id}

\* The ids of the conversations of contact `chat`.
ConversationsOf(convs, chat) ==
    {i \in 1..Len(convs) : convs[i].contact_number = chat}

\* `msgs2` is `msgs` with exactly one row added at its end.
OneRowAdded(msgs, msgs2) ==
    /\ Len(msgs2) = Len(msgs) + 1
    /\ \A i \in 1..Len(msgs) : msgs2[i] = msgs[i]

\* C1: outgoing dedup.  In every reachable state, an outgoingMessageReceived
\* event with an idMessage M for a chat whose conversation C already holds a
\* row with external_id M inserts no row: the rows of C with external_id M
\* are the same rows as before, so there stays exactly one when there was
\* exactly one, and that row's sent_at is the event's timestamp (the time of
\* receipt when the event carries none).
C1_OutgoingDedup ==
    \A ev \in OutgoingEvents :
        \A c \in ConversationsOf(conversations, ev.chatId) :
            LET r == green_webhook(conversations, messages, ev, clock)
                before == RowsWith(messages, c, ev.idMessage)
                after == RowsWith(r.messages, c, ev.idMessage)
            IN  (Stored(ev) /\ ev.idMessage # None /\ before # {}) =>
                    /\ Len(r.messages) = Len(messages)
                    /\ after = before
                    /\ Cardinality(before) = 1 =>
                           /\ Cardinality(after) = 1
                           /\ \A i \in after :
                                  r.messages[i].sent_at =
                                      IF ev.timestamp # 0 THEN ev.timestamp
                                      ELSE clock

\* A state in which the echo of a message the operator sent arrives: the
\* conversation holds one agent row with the event's idMessage and another
\* sent_at, and the handler stores the event without adding a row.
C1_Witness ==
    \E ev \in OutgoingEvents :
        \E c \in ConversationsOf(conversations, ev.chatId) :
            LET r == green_webhook(conversations, messages, ev, clock)
                before == RowsWith(messages, c, ev.idMessage)
            IN  /\ Stored(ev) /\ ev.idMessage # None /\ ev.timestamp # 0
                /\ Cardinality(before) = 1
                /\ \A i \in before :
                       /\ messages[i].sender_type = "agent"
                       /\ messages[i].sent_at # ev.timestamp
                       /\ r.messages[i].sent_at = ev.timestamp
                /\ r.status = "stored"
                /\ Len(r.messages) = Len(messages)

\* C3: conversation uniqueness.  No two rows of the conversations table have
\* the same contact_number.
C3_UniqueContact ==
    \A i, j \in 1..Len(conversations) :
        conversations[i].contact_number = conversations[j].contact_number
            => i = j

\* Two conversations exist, one made from the form and one by the webhook,
\* and each holds a message: the later requests found them again.
C3_Witness ==
    /\ Len(conversations) = 2
    /\ \E i, j \in 1..Len(conversations) :
           /\ conversations[i].contact_name = Ana
           /\ conversations[j].contact_name = conversations[j].contact_number
    /\ \A i \in 1..Len(conversations) :
           \E k \in 1..Len(messages) : messages[k].conversation_id = i

\* C2: repeated delivery is idempotent.  In every reachable state, delivering
\* an incomingMessageReceived, outgoingMessageReceived or
\* outgoingMessageStatus event and then the same event again leaves as many
\* Conversation rows and as many Message rows as the first delivery left.
C2_RepeatedDeliveryIdempotent ==
    \A ev \in IncomingEvents \cup OutgoingEvents \cup StatusEvents :
        LET first == green_webhook(conversations, messages, ev, clock)
            second == green_webhook(first.conversations, first.messages, ev,
                                    clock)
        IN  /\ Len(second.conversations) = Len(first.conversations)
            /\ Len(second.messages) = Len(first.messages)

\* C4: all-or-nothing conversation creation.  In every reachable state, a
\* create-conversation request with an initial message whose gateway call
\* fails (HTTP error, any other error, no credentials) commits the tables as
\* they were.
C4_FailedCreationLeavesNothing ==
    \A form \in Forms, send \in Sends :
        LET r == new_conversation(conversations, messages, form, send, clock)
        IN  (form.initial_message # NoText /\ send.outcome # "ok") =>
                /\ r.conversations = conversations
                /\ r.messages = messages

\* A state with rows in both tables in which the form names a new contact,
\* the POST goes out to the gateway and fails, and the form is shown again.
C4_Witness ==
    /\ Len(conversations) >= 1 /\ Len(messages) >= 1
    /\ \E form \in Forms, send \in Sends :
           LET r == new_conversation(conversations, messages, form, send,
                                     clock)
           IN  /\ form.initial_message # NoText
               /\ send.outcome = "http_error"
               /\ r.posted /\ r.status = "form"
               /\ r.conversations = conversations

C6_CreateExistingRedirects ==
    \A form \in Forms, send \in Sends :
        \A c \in 1..Len(conversations) :
            LET r == new_conversation(conversations, messages, form, send,
                                      clock)
                norm == normalize_chat_id(form.contact_number)
            IN  (norm.ok /\ conversations[c].contact_number = norm.value) =>
                    /\ r.code = 302 /\ r.conv = c
                    /\ r.conversations = conversations
                    /\ r.messages = messages
                    /\ ~r.posted

\* A state in which the operator types, with an initial message, a number
\* that is not the stored contact_number as typed but normalizes to it.
C6_Witness ==
    \E form \in Forms, c \in 1..Len(conversations) :
        LET r == new_conversation(conversations, messages, form,
                     [outcome |-> "ok", idMessage |-> "A"], clock)
        IN  /\ form.initial_message # NoText
            /\ form.contact_number # conversations[c].contact_number
            /\ normalize_chat_id(form.contact_number).value =
                   conversations[c].contact_number
            /\ r.status = "redirect" /\ r.conv = c

\* C7: a status event changes nothing.  In every reachable state, an
\* outgoingMessageStatus event, whatever it holds, commits both tables as
\* they were and is answered 200; when no row carries its idMessage the
\* answer is "ignored" and when one does it is "acknowledged".
C7_StatusChangesNothing ==
    \A ev \in AllStatus :
        LET r == green_webhook(conversations, messages, ev, clock)
            known == \E i \in 1..Len(messages) :
                         messages[i].external_id = ev.idMessage
        IN  /\ r.conversations = conversations
            /\ r.messages = messages
            /\ r.code = 200
            /\ ~known => r.status = "ignored"
            /\ (known /\ ev.idMessage # None) => r.status = "acknowledged"

\* A state in which a row carries the id "A" and none the id "B": the status
\* event for "A" is acknowledged, the one for "B" is unknown.
C7_Witness ==
    /\ \E i \in 1..Len(messages) : messages[i].external_id = "A"
    /\ \A i \in 1..Len(messages) : messages[i].external_id # "B"
    /\ \E a, b \in StatusEvents :
           /\ a.idMessage = "A" /\ b.idMessage = "B"
           /\ green_webhook(conversations, messages, a, clock).status =
                  "acknowledged"
           /\ green_webhook(conversations, messages, b, clock).status =
                  "ignored"

\* C8: an incoming message is stored.  In every reachable state, an
\* incomingMessageReceived event with a text and a chat id adds exactly one
\* row, with sender_type customer and the event's idMessage as external_id;
\* when no conversation has that chat id as contact_number, exactly one
\* conversation is added, with it, and holds the row; when one has, no
\* conversation is added and the row is in that one.
C8_IncomingStored ==
    \A ev \in IncomingEvents :
        LET r == green_webhook(conversations, messages, ev, clock)
            had == ConversationsOf(conversations, ev.chatId)
            new == r.messages[Len(r.messages)]
            n == Len(conversations)
        IN  (ev.textMessage # NoText /\ ev.chatId # Empty) =>
                /\ OneRowAdded(messages, r.messages)
                /\ new.sender_type = "customer"
                /\ new.external_id = ev.idMessage
                /\ \A i \in 1..n :
                       r.conversations[i].contact_number =
                           conversations[i].contact_number
                /\ IF had = {}
                   THEN /\ Len(r.conversations) = n + 1
                        /\ r.conversations[n + 1].contact_number = ev.chatId
                        /\ new.conversation_id = n + 1
                   ELSE /\ Len(r.conversations) = n
                        /\ new.conversation_id \in had

\* A state with one conversation, of chat 1, and a row in it: an event from
\* chat 1 is stored in it, an event from chat 2 makes the second conversation.
C8_Witness ==
    /\ Len(conversations) = 1 /\ conversations[1].contact_number = Chat1
    /\ Len(messages) = 1
    /\ \E a, b \in IncomingEvents :
           LET ra == green_webhook(conversations, messages, a, clock)
               rb == green_webhook(conversations, messages, b, clock)
           IN  /\ a.chatId = Chat1 /\ a.idMessage = "A"
               /\ b.chatId = Chat2 /\ b.idMessage = "B"
               /\ ra.status = "received" /\ Len(ra.conversations) = 1
               /\ ra.messages[2].conversation_id = 1
               /\ rb.status = "received" /\ Len(rb.conversations) = 2
               /\ rb.messages[2].conversation_id = 2

\* C9: discarded events change nothing.  In every reachable state, an
\* incomingMessageReceived event without text, an outgoingMessageReceived
\* event without chat id or without text in both shapes, and an event of
\* another typeWebhook or of none, whatever else they hold, commit both
\* tables as they were and are answered 200.
C9_DiscardedChangeNothing ==
    \A ev \in AllIncoming \cup AllOutgoing \cup AllOther :
        LET r == green_webhook(conversations, messages, ev, clock)
            discarded ==
                \/ ev.typeWebhook = "incomingMessageReceived"
                   /\ ev.textMessage = NoText
                \/ ev.typeWebhook = "outgoingMessageReceived"
                   /\ (ev.chatId = Empty
                       \/ (ev.textMessage = NoText /\ ev.text = NoText))
                \/ ev.typeWebhook \notin {"incomingMessageReceived",
                                          "outgoingMessageReceived",
                                          "outgoingMessageStatus"}
        IN  discarded =>
                /\ r.conversations = conversations
                /\ r.messages = messages
                /\ r.code = 200

\* A state in which chat 1 has a conversation holding a row with the id "A"
\* and an earlier sent_at, and events naming that chat, that id and a later
\* timestamp are discarded: an incoming one without text, an outgoing one
\* without text, one of another type that has a text.
C9_Witness ==
    \E c \in ConversationsOf(conversations, Chat1) :
        /\ \E i \in RowsWith(messages, c, "A") : messages[i].sent_at < MaxClock
        /\ \E ev \in AllIncoming \cup AllOutgoing \cup AllOther :
               /\ ev.chatId = Chat1 /\ ev.idMessage = "A"
               /\ ev.timestamp = MaxClock
               /\ ev.textMessage = NoText /\ ev.text = NoText
               /\ green_webhook(conversations, messages, ev, clock).status =
                      "ignored"
        /\ \E ev \in AllOther :
               /\ ev.chatId = Chat1 /\ ev.textMessage # NoText
               /\ green_webhook(conversations, messages, ev, clock).status =
                      "ignored"

\* C10: updated_at never decreases.  In every step, with the clock never
\* going back, no conversation's updated_at decreases, and a step that adds
\* a message or changes one leaves the updated_at of that message's
\* conversation at the time of receipt, whatever the event's timestamp.
C10_UpdatedAtMonotonic ==
    [][/\ clock' >= clock
       /\ \A i \in 1..Len(conversations) :
              /\ i <= Len(conversations')
              /\ conversations'[i].updated_at >= conversations[i].updated_at
       /\ \A k \in 1..Len(messages') :
              (k > Len(messages) \/ messages'[k] # messages[k]) =>
                  conversations'[messages'[k].conversation_id].updated_at =
                      clock']_vars

\* A state in which one conversation holds a row whose sent_at, an event's
\* timestamp, is later than the conversation's updated_at, and another holds
\* a row whose sent_at is earlier than its updated_at.
C10_Witness ==
    /\ \E k \in 1..Len(messages) :
           messages[k].sent_at >
               conversations[messages[k].conversation_id].updated_at
    /\ \E k \in 1..Len(messages) :
           messages[k].sent_at <
               conversations[messages[k].conversation_id].updated_at

\* The ids listed in `page` are in ascending order of their keys, ties
\* allowed.
Ascending(page, key) ==
    \A a, b \in 1..Len(page) : a < b => key[page[a]] <= key[page[b]]

\* The ids listed in `page` are in ascending order of their keys, no ties.
StrictlyAscending(page, key) ==
    \A a, b \in 1..Len(page) : a < b => key[page[a]] < key[page[b]]

\* `page` lists each of `ids` once and nothing else.
ListsOnce(page, ids) ==
    /\ Len(page) = Cardinality(ids)
    /\ {page[a] : a \in 1..Len(page)} = ids

SentAt == [k \in 1..Len(messages) |-> messages[k].sent_at]
UpdatedAt == [i \in 1..Len(conversations) |-> conversations[i].updated_at]
Negated(key) == [i \in DOMAIN key |-> 0 - key[i]]

\* C11 as stated: in every reachable state, every list of a conversation's
\* messages retrieved for display is strictly ordered by sent_at ascending,
\* and the dashboard list strictly by updated_at descending: no two
\* neighbours tie.
C11_StrictDisplayOrder ==
    /\ \A c \in 1..Len(conversations) :
           \A page \in conversation_messages(messages, c) :
               StrictlyAscending(page, SentAt)
    /\ \A page \in dashboard(conversations) :
           StrictlyAscending(page, Negated(UpdatedAt))

\* C11, amended: in every reachable state, every list of a conversation's
\* messages retrieved for display holds each message of the conversation
\* once, ordered by sent_at ascending, and the dashboard list holds each
\* conversation once, ordered by updated_at descending; rows with equal
\* values tie, and are listed in either order.
C11_DisplayOrder ==
    /\ \A c \in 1..Len(conversations) :
           LET rows == {k \in 1..Len(messages) :
                           messages[k].conversation_id = c}
               pages == conversation_messages(messages, c)
           IN  /\ pages # {}
               /\ \A page \in pages :
                      /\ ListsOnce(page, rows)
                      /\ Ascending(page, SentAt)
               /\ \A k, l \in rows :
                      (k # l /\ SentAt[k] = SentAt[l]) =>
                          \E p, q \in pages : p # q
    /\ LET pages == dashboard(conversations)
       IN  /\ pages # {}
           /\ \A page \in pages :
                  /\ ListsOnce(page, 1..Len(conversations))
                  /\ Ascending(page, Negated(UpdatedAt))

\* A state in which a conversation holds two messages with the same sent_at,
\* listed in either order, and the dashboard lists the conversation made
\* last first.
C11_Witness ==
    /\ \E c \in 1..Len(conversations) :
           Cardinality(conversation_messages(messages, c)) = 2
    /\ dashboard(conversations) = {<<2, 1>>}

\* Row `k` is the one an outgoingMessageReceived event `ev` takes for its
\* duplicate: it is of the event's conversation and carries the event's
\* idMessage (an absent id matching a row stored without one).
Duplicates(ev, k) ==
    /\ ev.typeWebhook = "outgoingMessageReceived"
    /\ Stored(ev)
    /\ messages[k].conversation_id \in ConversationsOf(conversations, ev.chatId)
    /\ messages[k].external_id = ev.idMessage

\* The events a run delivers to the webhook.
WebhookEvents ==
    IncomingEvents \cup OutgoingEvents \cup StatusEvents \cup OtherEvents

\* C13 as stated: in every reachable state, a request leaves the sent_at of
\* a stored message as it was unless it is an outgoingMessageReceived event
\* for the message's conversation with the message's external_id and a
\* timestamp newer than the stored sent_at; so no sent_at ever decreases.
C13_SentAtOnlyMovesForward ==
    \A ev \in WebhookEvents :
        \A k \in 1..Len(messages) :
            LET r == green_webhook(conversations, messages, ev, clock)
                after == r.messages[k].sent_at
            IN  /\ after >= messages[k].sent_at
                /\ after # messages[k].sent_at =>
                       /\ Duplicates(ev, k)
                       /\ EventTime(ev.timestamp, clock) > messages[k].sent_at

\* The result `r` of a request leaves the sent_at of every stored row as it
\* was.
SentAtKept(r) ==
    /\ Len(r.messages) >= Len(messages)
    /\ \A k \in 1..Len(messages) : r.messages[k].sent_at = messages[k].sent_at

\* C13, amended: in every reachable state, a request leaves the sent_at of
\* a stored message as it was unless it is an outgoingMessageReceived event
\* for the message's conversation with the message's external_id; such an
\* event sets the sent_at of the row with the highest id among those to its
\* own timestamp (the time of receipt when it carries none), be it newer
\* than, equal to or older than what the row held.
C13_SentAtSetByDuplicate ==
    /\ \A form \in Forms, send \in Sends :
           SentAtKept(new_conversation(conversations, messages, form, send,
                                       clock))
    /\ \A c \in 1..MaxConversations, form \in MessageForms, send \in Sends :
           SentAtKept(conversation_detail(conversations, messages, c, form,
                                          send, clock))
    /\ \A ev \in WebhookEvents :
           LET r == green_webhook(conversations, messages, ev, clock)
           IN  /\ Len(r.messages) >= Len(messages)
               /\ \A k \in 1..Len(messages) :
                      /\ r.messages[k].sent_at # messages[k].sent_at =>
                             Duplicates(ev, k)
                      /\ (/\ Duplicates(ev, k)
                          /\ \A l \in 1..Len(messages) :
                                 Duplicates(ev, l) => l <= k)
                             => r.messages[k].sent_at =
                                    EventTime(ev.timestamp, clock)

\* A state in which a stored message holds a sent_at of 2 and a duplicate
\* outgoing event with the timestamp 1 moves it back to 1.
C13_Witness ==
    \E ev \in OutgoingEvents :
        \E k \in 1..Len(messages) :
            LET r == green_webhook(conversations, messages, ev, clock)
            IN  /\ Duplicates(ev, k)
                /\ ev.idMessage # None
                /\ messages[k].sent_at = 2
                /\ ev.timestamp = 1
                /\ r.messages[k].sent_at = 1

\* C16: dedup tie-break.  In every reachable state in which a conversation
\* holds several rows with the external_id of an outgoingMessageReceived
\* event for it, the event adds no row, sets the sent_at of the row with the
\* highest id among them to its timestamp (the time of receipt when it
\* carries none) and leaves every other row, and the other fields of that
\* row, as they were.
C16_DedupTieBreak ==
    \A ev \in OutgoingEvents :
        LET r == green_webhook(conversations, messages, ev, clock)
            rows == {k \in 1..Len(messages) : Duplicates(ev, k)}
            top == CHOOSE k \in rows : \A l \in rows : l <= k
        IN  Cardinality(rows) >= 2 =>
                /\ Len(r.messages) = Len(messages)
                /\ r.messages[top] =
                       [messages[top] EXCEPT
                            !.sent_at = EventTime(ev.timestamp, clock)]
                /\ \A k \in 1..Len(messages) :
                       k # top => r.messages[k] = messages[k]

\* A state in which a conversation holds two rows with the idMessage of an
\* outgoing event for it, both with another sent_at than the event's: the
\* second gets the event's timestamp, the first keeps its own.
C16_Witness ==
    \E ev \in OutgoingEvents :
        LET r == green_webhook(conversations, messages, ev, clock)
        IN  /\ ev.idMessage # None /\ ev.timestamp # 0
            /\ Len(messages) = 2
            /\ Duplicates(ev, 1) /\ Duplicates(ev, 2)
            /\ messages[1].sent_at # ev.timestamp
            /\ messages[2].sent_at # ev.timestamp
            /\ r.messages[1].sent_at = messages[1].sent_at
            /\ r.messages[2].sent_at = ev.timestamp

\* C17: dedup is scoped to the conversation.  In every reachable state, an
\* outgoingMessageReceived event for chat C with idMessage M, when no row of
\* C's conversation carries M and a row of another conversation does, adds
\* one agent row to C's conversation (made when C has none) and leaves every
\* row and the updated_at of every other conversation as they were; whereas
\* an outgoingMessageStatus event with idMessage M is acknowledged exactly
\* when a row of any conversation carries M.
C17_DedupScopedToConversation ==
    /\ \A ev \in OutgoingEvents :
           LET r == green_webhook(conversations, messages, ev, clock)
               here == ConversationsOf(conversations, ev.chatId)
               conv == IF here = {} THEN Len(conversations) + 1
                       ELSE CHOOSE c \in here : TRUE
               message_text == IF ev.textMessage # NoText THEN ev.textMessage
                               ELSE ev.text
           IN  (/\ Stored(ev)
                /\ \A k \in 1..Len(messages) : ~Duplicates(ev, k)
                /\ \E k \in 1..Len(messages) :
                       messages[k].external_id = ev.idMessage)
                   => /\ OneRowAdded(messages, r.messages)
                      /\ r.messages[Len(r.messages)] =
                             Message(conv, "agent", message_text,
                                     EventTime(ev.timestamp, clock),
                                     ev.idMessage)
                      /\ conv \in ConversationsOf(r.conversations, ev.chatId)
                      /\ \A c \in 1..Len(conversations) :
                             c # conv => r.conversations[c] = conversations[c]
    /\ \A ev \in StatusEvents :
           LET r == green_webhook(conversations, messages, ev, clock)
           IN  ev.idMessage # None =>
                   /\ r.status = "acknowledged" <=>
                          \E k \in 1..Len(messages) :
                              messages[k].external_id = ev.idMessage
                   /\ r.conversations = conversations
                   /\ r.messages = messages

\* A state in which a row of one conversation carries the idMessage of an
\* outgoing event for another conversation, which holds no such row: the
\* event adds a row there, and the status event with that id is acknowledged
\* for the first conversation.
C17_Witness ==
    \E ev \in OutgoingEvents, st \in StatusEvents :
        LET r == green_webhook(conversations, messages, ev, clock)
            a == green_webhook(conversations, messages, st, clock)
        IN  /\ Stored(ev) /\ ev.idMessage # None
            /\ st.idMessage = ev.idMessage
            /\ Len(conversations) = 2
            /\ conversations[2].contact_number = ev.chatId
            /\ Len(messages) = 1
            /\ messages[1].conversation_id = 1
            /\ messages[1].external_id = ev.idMessage
            /\ Len(r.messages) = 2
            /\ r.messages[2].conversation_id = 2
            /\ r.messages[1] = messages[1]
            /\ a.status = "acknowledged" /\ a.conv = 1

\* C18: in every reachable state, an outgoingMessageReceived event that
\* carries a chat id and a text but no idMessage adds one agent row and
\* leaves every stored row, its sent_at included, as it was, also when the
\* conversation holds rows stored without an external_id.
C18_NoIdAlwaysInserts ==
    \A ev \in OutgoingEvents :
        LET r == green_webhook(conversations, messages, ev, clock)
        IN  (Stored(ev) /\ ev.idMessage = None) =>
                /\ OneRowAdded(messages, r.messages)
                /\ r.messages[Len(r.messages)].sender_type = "agent"
                /\ r.messages[Len(r.messages)].external_id = None

\* The outgoing events that carry another text than any stored row does.
OtherTextEvents ==
    {[ev EXCEPT !.textMessage = "adios"] :
        ev \in {e \in OutgoingEvents : e.textMessage # NoText}}

\* The result `r` of a request leaves every stored row in place with its
\* conversation_id, sender_type, message_text and external_id, and every row
\* it holds references a conversation it holds.
RowsKept(r) ==
    /\ Len(r.messages) >= Len(messages)
    /\ Len(r.conversations) >= Len(conversations)
    /\ \A k \in 1..Len(messages) :
           r.messages[k] =
               [messages[k] EXCEPT !.sent_at = r.messages[k].sent_at]
    /\ \A k \in 1..Len(r.messages) :
           r.messages[k].conversation_id \in 1..Len(r.conversations)

\* C19: message rows are append-only apart from sent_at.  In every reachable
\* state every row references a conversation that exists, and every request
\* (a duplicate outgoing event that matches a customer row or carries
\* another text among them) leaves every stored row in place with its
\* conversation_id, sender_type, message_text and external_id, and every row
\* of the result referencing a conversation of the result.
C19_AppendOnly ==
    /\ \A k \in 1..Len(messages) :
           messages[k].conversation_id \in 1..Len(conversations)
    /\ \A form \in Forms, send \in Sends :
           RowsKept(new_conversation(conversations, messages, form, send,
                                     clock))
    /\ \A c \in 1..MaxConversations, form \in MessageForms, send \in Sends :
           RowsKept(conversation_detail(conversations, messages, c, form,
                                        send, clock))
    /\ \A ev \in WebhookEvents \cup OtherTextEvents :
           RowsKept(green_webhook(conversations, messages, ev, clock))

\* A state in which a customer row with the text "hola" carries the
\* idMessage of an outgoing event for its conversation with another text:
\* the event changes the row's sent_at and nothing else of it.
C19_Witness ==
    \E ev \in OtherTextEvents :
        \E k \in 1..Len(messages) :
            LET r == green_webhook(conversations, messages, ev, clock)
            IN  /\ Duplicates(ev, k) /\ ev.idMessage # None
                /\ messages[k].sender_type = "customer"
                /\ messages[k].message_text = "hola"
                /\ r.messages[k].sent_at # messages[k].sent_at
                /\ r.messages[k].sender_type = "customer"
                /\ r.messages[k].message_text = "hola"
                /\ Len(r.messages) = Len(messages)

\* C20: in every reachable state, an incomingMessageReceived event with a
\* text is answered 200 "received" and adds exactly one customer row,
\* whichever of chatId, senderName, idMessage and timestamp it carries (an
\* event without senderData carries neither chatId nor senderName); no
\* missing field makes for a 5xx answer.
C20_IncomingAlwaysReceived ==
    \A ev \in IncomingEvents :
        LET r == green_webhook(conversations, messages, ev, clock)
        IN  ev.textMessage # NoText =>
                /\ r.code = 200 /\ r.status = "received"
                /\ OneRowAdded(messages, r.messages)
                /\ r.messages[Len(r.messages)].sender_type = "customer"

\* C12: normalize_chat_id is idempotent.  For every string of digits, '@',
\* letters, '+' and spaces up to the bound: the call fails when the string
\* is empty or holds neither an '@' nor a digit, and where it succeeds a
\* second call on its result succeeds and returns that result.
C12_NormalizeIdempotent ==
    /\ Len(normalized) >= 1 =>
           ((\/ typed_number = << >>
             \/ \A i \in 1..Len(typed_number) :
                    typed_number[i] \notin Digits \cup {"@"})
                => ~normalized[1].ok)
    /\ Len(normalized) = 2 =>
           /\ normalized[1].ok
           /\ normalized[2].ok
           /\ normalized[2].value = normalized[1].value

\* A state in which a number typed with a space, a '+' and a digit was made
\* into another string, the chat id of its digit, and that chat id came out
\* of the second call as it went in.
C12_Witness ==
    /\ typed_number = <<" ", "+", "1">>
    /\ Len(normalized) = 2
    /\ normalized[1].value = Chat1
    /\ normalized[1].value # typed_number
    /\ normalized[2] = normalized[1]

\* C14: the operator's post and its echo.  In every step in which a worker
\* stores the message it sent, the gateway having given it the idMessage M,
\* the conversation holds exactly one row with external_id M afterwards,
\* whether the echo of the message was handled before that step, between the
\* gateway's response and it, or is yet to come.
C14_PostAndEchoOneRow ==
    [][\A w \in Workers :
           (/\ requests[w].pc = "post_sent"
            /\ requests'[w] = Idle
            /\ requests[w].external_id # None)
               => Cardinality(RowsWith(messages', requests[w].conversation,
                                       requests[w].external_id)) = 1]_vars

====
